---- MODULE Spec2Model ----
(***************************************************************************)
(* Model of the AI defect detection backend: the inspection pipeline of    *)
(* app.py, the active-learning store of active_learning_service.py and the *)
(* incremental retraining script incremental_retrain.py.                   *)
(*                                                                         *)
(* Directories are modelled by the files they hold.  An image file is      *)
(* named by the pair <<timestamp, conf>> that handle_detection formats     *)
(* into the file name; a sidecar file is named by the image it belongs to. *)
(* Confidences are in units of 0.00001, anomaly scores and verifier        *)
(* probabilities in tenths.                                               *)
(***************************************************************************)
EXTENDS Integers, Sequences, FiniteSets, TLC

\* ---------------------------------------------------------------- bounds
MaxTick == 1        \* the clock takes the values 0..MaxTick
MaxVer  == 1        \* checkpoints the trainer can write: versions 2..MaxVer+1

\* ------------------------------------------------------- program constants
CONFIDENCE_THRESHOLD == 50000   \* settings: active_learning.confidence_threshold
anomaly_threshold    == 5       \* settings: anomaly.threshold
TRIGGER_COUNT        == 1       \* settings: active_learning.retrain_trigger_count

\* ------------------------------------------------------------------ names
Ticks      == 0..MaxTick
GateConfs  == {45400, 50000, 90000}   \* confidences handed to the gate
EmptyName  == <<>>              \* the empty string as a file name
NoFile     == <<-1>>            \* "no file": a worker that holds no name
Partial    == -1                \* a weights file that is written in part

\* f"{confidence:.2f}": the confidence rounded to hundredths
Fmt2(c) == (c + 500) \div 1000

\* round(float(conf), 4)
Round4(c) == ((c + 5) \div 10) * 10

\* f"review_pending_{timestamp}_conf{confidence:.2f}_cls{class_id}.jpg"
PendingName(ts, c) == <<ts, Fmt2(c)>>

AllNames == {PendingName(t, c) : t \in Ticks, c \in {x \in GateConfs : x < CONFIDENCE_THRESHOLD}}

\* request bodies of /api/label: "bboxes" absent or [] gives [], null gives None
\* a box is <<class_id, cx, cy, w, h>>, the coordinates in tenths
NoneBoxes == <<<<-1>>>>         \* None: no box list given
Box1      == <<0, 5, 5, 10, 10>>
Box2      == <<3, 2, 7, 4, 1>>
BoxInputs == {NoneBoxes, <<>>, <<Box1>>, <<Box2, Box1>>}

GateWorkers  == {"g1", "g2"}
LabelWorkers == {"l1", "l2"}     \* request threads in /api/label
OneLabeler   == {"l1"}

\* finite maps (a directory's sidecar files: name -> content)
Put(f, k, v) == [x \in (DOMAIN f) \cup {k} |-> IF x = k THEN v ELSE f[x]]
Del(f, k)    == [x \in (DOMAIN f) \ {k} |-> f[x]]
EmptyMap     == [x \in {} |-> <<>>]

VARIABLES
  clock,        \* datetime.now()
  pendingDir,   \* PENDING_DIR exists
  pending,      \* image files in PENDING_DIR
  labeledJpg,   \* *.jpg files in LABELED_DIR
  labeledTxt,   \* sidecar files in LABELED_DIR: name -> box list
  strayDir,     \* LABELED_DIR holds a sub-directory named like PENDING_DIR
  stray,        \* image files inside that sub-directory
  consumedJpg,  \* image files in consumed_labeled_data
  consumedTxt,  \* sidecar files in consumed_labeled_data
  prod,         \* models/best.pt: 0 absent, else the version it holds
  backup,       \* models/best_backup.pt
  best,         \* runs/detect/incremental_retrain/weights/best.pt
  manifest,     \* incremental_dataset.yaml exists
  gate,         \* per gate call in flight: pc, conf, file, ret
  lab,          \* per label call in flight: pc, file, boxes, ret
  rt,           \* the retraining process: pc, locals, return value
  pl,           \* the /api/pipeline request in progress: pc, locals, response
  history_store, \* the ids of the entries of the detection history, newest first
  yolo_model,   \* app.py line 30: the weights the serving process holds
  trigger       \* the check_retrain_trigger call in progress: its result

vars == <<clock, pendingDir, pending, labeledJpg, labeledTxt, strayDir, stray,
          consumedJpg, consumedTxt, prod, backup, best, manifest, gate, lab, rt,
          pl, history_store, yolo_model, trigger>>

store   == <<pendingDir, pending, labeledJpg, labeledTxt, strayDir, stray,
             consumedJpg, consumedTxt>>
weights == <<prod, backup, best, manifest>>
cascade == <<pl, history_store>>
proc    == <<yolo_model, trigger>>

\* ------------------------------------------------------------------ Init
GateIdle  == [pc |-> "idle", conf |-> 0, file |-> NoFile, ret |-> "none"]
LabelIdle == [pc |-> "idle", file |-> NoFile, boxes |-> NoneBoxes, at |-> "none", ret |-> "none"]
NoAnomaly == [status |-> "none", anomaly_score |-> 0, threshold |-> 0]
NoResp    == [code |-> 0]
NoRequest == [decodable |-> FALSE, detects |-> FALSE, loaded |-> FALSE, mse |-> 0,
              dets |-> <<>>]
PipelineIdle == [pc |-> "idle", req |-> NoRequest, model |-> 0,
                 anomaly_result |-> NoAnomaly,
                 defects |-> <<>>, confidence |-> 0, al |-> "none", file |-> NoFile,
                 resp |-> NoResp]
\* startTxt records which of the labeled images had their sidecar when
\* the run began; produced, backed and replaced record how far it got.
RetrainIdle == [pc |-> "idle", labeled_images |-> {}, startTxt |-> {}, list |-> {},
                produced |-> FALSE, backed |-> FALSE, replaced |-> FALSE,
                ret |-> "none"]

\* model_service.py lines 29-39: the serving process loads models/best.pt
\* when it starts, or the stock yolov8n weights (0) when there is none; it
\* gets the file as it is at that moment
load_model == IF prod # 0 THEN prod ELSE 0

\* A fresh deployment: both review directories exist and are empty (mkdir
\* at lines 29-30) and models/best.pt is the model trained by yolo_train.py.
Init ==
  /\ clock = 0
  /\ pendingDir = TRUE
  /\ pending = {}
  /\ labeledJpg = {}
  /\ labeledTxt = EmptyMap
  /\ strayDir = FALSE
  /\ stray = {}
  /\ consumedJpg = {}
  /\ consumedTxt = EmptyMap
  /\ prod = 1
  /\ backup = 0
  /\ best = 0
  /\ manifest = FALSE
  /\ gate = [w \in GateWorkers |-> GateIdle]
  /\ lab = [w \in LabelWorkers |-> LabelIdle]
  /\ rt = RetrainIdle
  /\ pl = PipelineIdle
  /\ history_store = <<>>
  /\ yolo_model = load_model
  /\ trigger = "none"

\* ----------------------------------------------------------------- clock
Tick ==
  /\ clock < MaxTick
  /\ clock' = clock + 1
  /\ UNCHANGED <<proc, cascade, store, weights, gate, lab, rt>>

\* ------------------------------------------------------ handle_detection
\* line 37: the gate condition
ShouldFlag(c) == c < CONFIDENCE_THRESHOLD

\* lines 37-41 and 51: the threshold test, the timestamp and the file name
GateEnter(c) ==
  IF ShouldFlag(c)
    THEN [pc |-> "write", conf |-> c, file |-> PendingName(clock, c), ret |-> "none"]
    ELSE [pc |-> "return", conf |-> c, file |-> NoFile, ret |-> "OK"]

GateCall(w, c) ==
  /\ gate[w].pc = "idle"
  /\ gate' = [gate EXCEPT ![w] = GateEnter(c)]
  /\ UNCHANGED <<proc, cascade, clock, store, weights, lab, rt>>

\* lines 43-49: cv2.imwrite creates or overwrites the file.  When the
\* directory is gone nothing is written; imwrite then reports failure by
\* its return value, which the code ignores, or raises.
ImWrite(file) == IF pendingDir THEN pending \cup {file} ELSE pending

GateRets == IF pendingDir THEN {"FLAGGED"} ELSE {"FLAGGED", "ERROR"}

GateWrite(w) ==
  /\ gate[w].pc = "write"
  /\ pending' = ImWrite(gate[w].file)
  /\ \E r \in GateRets : gate' = [gate EXCEPT ![w].pc = "return", ![w].ret = r]
  /\ UNCHANGED <<proc, cascade, clock, pendingDir, labeledJpg, labeledTxt, strayDir, stray,
                 consumedJpg, consumedTxt, weights, lab, rt>>

\* lines 47, 49 and 51: the result goes back to the caller
GateReturn(w) ==
  /\ gate[w].pc = "return"
  /\ gate' = [gate EXCEPT ![w] = GateIdle]
  /\ UNCHANGED <<proc, cascade, clock, store, weights, lab, rt>>

\* ----------------------------------------------------------- label_image
\* line 62-63: pending_path.exists().  PENDING_DIR / "" is PENDING_DIR.
PendingPathExists(f) ==
  IF f = EmptyName THEN pendingDir ELSE pendingDir /\ f \in pending

\* lines 62-64: the existence test of /api/label
LabelCall(w, f, b) ==
  /\ lab[w].pc = "idle"
  /\ IF PendingPathExists(f)
       THEN lab' = [lab EXCEPT ![w] = [pc |-> "move", file |-> f, boxes |-> b,
                                       at |-> "none", ret |-> "none"]]
       ELSE lab' = [lab EXCEPT ![w] = [pc |-> "return", file |-> f, boxes |-> b,
                                       at |-> "none", ret |-> "File not found"]]
  /\ UNCHANGED <<proc, cascade, clock, store, weights, gate, rt>>

\* line 72: whether a sidecar is written after the move
WritesSidecar(b) == b # NoneBoxes

\* after a successful move: on to the sidecar, or return SUCCESS (line 80)
AfterMove(w) ==
  IF WritesSidecar(lab[w].boxes)
    THEN [lab EXCEPT ![w].pc = "open"]
    ELSE [lab EXCEPT ![w].pc = "return", ![w].ret = "SUCCESS"]

\* a move that takes a missing source for done
MoveIgnoresMissing(f) == FALSE

\* line 69: the source of the move has gone since the test at line 63
MoveSourceMissing(f) == ~PendingPathExists(f)

\* lines 68-69 and 81-82: shutil.move(pending_path, LABELED_DIR / filename).
\* An image is renamed into LABELED_DIR, replacing a file of that name.
\* With the empty name the source is PENDING_DIR itself and the destination
\* the directory LABELED_DIR, so the directory is renamed into it, unless
\* an entry of that name is there already.  A missing source raises, and
\* the error text is returned.
LabelMove(w) ==
  LET f == lab[w].file IN
  /\ lab[w].pc = "move"
  /\ IF MoveSourceMissing(f) \/ (f = EmptyName /\ strayDir)
       THEN /\ lab' = [lab EXCEPT ![w].pc = "return", ![w].ret = "ERROR"]
            /\ UNCHANGED <<pendingDir, pending, labeledJpg, strayDir, stray>>
       ELSE IF f = EmptyName
         THEN /\ pendingDir' = FALSE
              /\ pending' = {}
              /\ strayDir' = TRUE
              /\ stray' = pending
              /\ labeledJpg' = labeledJpg
              /\ lab' = AfterMove(w)
         ELSE /\ pending' = pending \ {f}
              /\ labeledJpg' = labeledJpg \cup {f}
              /\ lab' = AfterMove(w)
              /\ UNCHANGED <<pendingDir, strayDir, stray>>
  /\ UNCHANGED <<proc, cascade, clock, labeledTxt, consumedJpg, consumedTxt, weights, gate, rt>>

\* line 78: str() of an int and of a float, as characters
Digit(d) == <<"0", "1", "2", "3", "4", "5", "6", "7", "8", "9">>[d + 1]

StrInt(n) == IF n < 10 THEN <<Digit(n)>> ELSE <<Digit(n \div 10), Digit(n % 10)>>

StrFloat(v) == StrInt(v \div 10) \o <<".", Digit(v % 10)>>

\* the boxes written one after the other without the line break
FormatBoxNoNewline(box) ==
  StrInt(box[1]) \o <<" ">> \o StrFloat(box[2]) \o <<" ">> \o StrFloat(box[3])
    \o <<" ">> \o StrFloat(box[4]) \o <<" ">> \o StrFloat(box[5])

\* line 78: f"{box['class_id']} {box['cx']} {box['cy']} {box['w']} {box['h']}\n"
FormatBox(box) ==
  StrInt(box[1]) \o <<" ">> \o StrFloat(box[2]) \o <<" ">> \o StrFloat(box[3])
    \o <<" ">> \o StrFloat(box[4]) \o <<" ">> \o StrFloat(box[5]) \o <<"\n">>

\* lines 76-78: the text the loop writes for a box list
RECURSIVE SidecarText(_)
SidecarText(boxes) ==
  IF boxes = <<>> THEN <<>> ELSE FormatBox(Head(boxes)) \o SidecarText(Tail(boxes))

\* line 75: open(label_filepath, "w") creates the sidecar or empties it
LabelOpen(w) ==
  /\ lab[w].pc = "open"
  /\ labeledTxt' = Put(labeledTxt, lab[w].file, <<>>)
  /\ lab' = [lab EXCEPT ![w].pc = "write", ![w].at = "labeled"]
  /\ UNCHANGED <<proc, cascade, clock, pendingDir, pending, labeledJpg, strayDir, stray,
                 consumedJpg, consumedTxt, weights, gate, rt>>

\* lines 76-80: the lines reach the open file when it is closed, wherever
\* that file has been renamed to in the meantime
LabelWrite(w) ==
  LET f == lab[w].file
      b == lab[w].boxes IN
  /\ lab[w].pc = "write"
  /\ labeledTxt' = IF lab[w].at = "labeled"
                     THEN Put(labeledTxt, f, SidecarText(b)) ELSE labeledTxt
  /\ consumedTxt' = IF lab[w].at = "consumed"
                      THEN Put(consumedTxt, f, SidecarText(b)) ELSE consumedTxt
  /\ lab' = [lab EXCEPT ![w].pc = "return", ![w].at = "none", ![w].ret = "SUCCESS"]
  /\ UNCHANGED <<proc, cascade, clock, pendingDir, pending, labeledJpg, strayDir, stray,
                 consumedJpg, weights, gate, rt>>

\* lines 69 and 81-82: the rename fails (an OSError): nothing has moved
LabelMoveFail(w) ==
  /\ lab[w].pc = "move"
  /\ lab' = [lab EXCEPT ![w].pc = "return", ![w].ret = "ERROR"]
  /\ UNCHANGED <<proc, cascade, clock, store, weights, gate, rt>>

\* lines 75 and 81-82: the sidecar cannot be created; the image has moved
LabelOpenFail(w) ==
  /\ lab[w].pc = "open"
  /\ lab' = [lab EXCEPT ![w].pc = "return", ![w].ret = "ERROR"]
  /\ UNCHANGED <<proc, cascade, clock, store, weights, gate, rt>>

\* lines 76-78 and 81-82: writing fails; the file that was created stays
LabelWriteFail(w) ==
  /\ lab[w].pc = "write"
  /\ lab' = [lab EXCEPT ![w].pc = "return", ![w].at = "none", ![w].ret = "ERROR"]
  /\ UNCHANGED <<proc, cascade, clock, store, weights, gate, rt>>

\* lines 64, 80 and 82: the result goes back to /api/label
LabelReturn(w) ==
  /\ lab[w].pc = "return"
  /\ lab' = [lab EXCEPT ![w] = LabelIdle]
  /\ UNCHANGED <<proc, cascade, clock, store, weights, gate, rt>>

\* ------------------------------------------------- check_retrain_trigger
\* the threshold met only when passed
TriggerAboveOnly(labeled_count) == labeled_count > TRIGGER_COUNT

\* line 87
TriggerTest(labeled_count) == labeled_count >= TRIGGER_COUNT

\* lines 84-87: the *.jpg files of LABELED_DIR are counted
check_retrain_trigger ==
  IF TriggerTest(Cardinality(labeledJpg)) THEN "True" ELSE "False"

CheckTrigger ==
  /\ trigger = "none"
  /\ trigger' = check_retrain_trigger
  /\ UNCHANGED <<yolo_model, cascade, clock, store, weights, gate, lab, rt>>

\* the result goes back to the caller
TriggerReturn ==
  /\ trigger # "none"
  /\ trigger' = "none"
  /\ UNCHANGED <<yolo_model, cascade, clock, store, weights, gate, lab, rt>>

TriggerNext == CheckTrigger \/ TriggerReturn

\* ------------------------------------------------ run_incremental_retraining
\* lines 57-62: the labeled images are globbed; none: return False
RetrainStart ==
  /\ rt.pc = "idle"
  /\ IF labeledJpg = {}
       THEN rt' = [RetrainIdle EXCEPT !.pc = "return", !.ret = "False"]
       ELSE rt' = [RetrainIdle EXCEPT !.pc = "yaml",
                                      !.labeled_images = labeledJpg,
                                      !.startTxt = labeledJpg \cap DOMAIN labeledTxt]
  /\ UNCHANGED <<proc, cascade, clock, store, weights, gate, lab>>

\* line 65, create_incremental_dataset_yaml: the manifest file is written
RetrainYaml ==
  /\ rt.pc = "yaml"
  /\ manifest' = TRUE
  /\ rt' = [rt EXCEPT !.pc = "model_check"]
  /\ UNCHANGED <<proc, cascade, clock, store, prod, backup, best, gate, lab>>

\* lines 68-72: no production model: return False; YOLO(str(MODEL_OUT))
\* raises on a file written in part, and the script ends with the exception
RetrainModelCheck ==
  /\ rt.pc = "model_check"
  /\ IF prod = 0
       THEN rt' = [rt EXCEPT !.pc = "return", !.ret = "False"]
       ELSE IF prod = Partial
         THEN rt' = [rt EXCEPT !.pc = "crashed"]
         ELSE rt' = [rt EXCEPT !.pc = "train"]
  /\ UNCHANGED <<proc, cascade, clock, store, weights, gate, lab>>

\* the version a checkpoint written now would hold
NewVer == IF best = 0 THEN 2 ELSE best + 1

\* lines 75-86: model.train(..., exist_ok=True) runs in the directory of the
\* earlier runs; it writes weights/best.pt or leaves the directory as it is
RetrainTrain ==
  /\ rt.pc = "train"
  /\ \E wrote \in BOOLEAN :
       IF wrote /\ NewVer <= MaxVer + 1
         THEN /\ best' = NewVer
              /\ rt' = [rt EXCEPT !.pc = "best_check", !.produced = TRUE]
         ELSE /\ best' = best
              /\ rt' = [rt EXCEPT !.pc = "best_check", !.produced = FALSE]
  /\ UNCHANGED <<proc, cascade, clock, store, prod, backup, manifest, gate, lab>>

\* the labeled files cleared first, before the weights are touched
AfterBestCheckClearFirst == IF best # 0 THEN "list" ELSE "return"

\* lines 89-90 and 109-112: best_weights.exists() decides between the
\* update and the warning
AfterBestCheck == IF best # 0 THEN "backup" ELSE "return"

RetrainBestCheck ==
  /\ rt.pc = "best_check"
  /\ rt' = [rt EXCEPT !.pc = AfterBestCheck,
                      !.ret = IF AfterBestCheck = "return" THEN "True" ELSE rt.ret]
  /\ UNCHANGED <<proc, cascade, clock, store, weights, gate, lab>>

\* lines 92-93: shutil.copy2(MODEL_OUT, backup_model)
RetrainBackup ==
  /\ rt.pc = "backup"
  /\ backup' = prod
  /\ rt' = [rt EXCEPT !.pc = "replace", !.backed = TRUE]
  /\ UNCHANGED <<proc, cascade, clock, store, prod, best, manifest, gate, lab>>

\* line 96: shutil.copy2(best_weights, MODEL_OUT) opens MODEL_OUT for
\* writing, which empties it, and copies the checkpoint into it piece by
\* piece
RetrainReplace ==
  /\ rt.pc = "replace"
  /\ prod' = Partial
  /\ rt' = [rt EXCEPT !.pc = "replace_write"]
  /\ UNCHANGED <<proc, cascade, clock, store, backup, best, manifest, gate, lab>>

\* line 96: the last piece is written and the copy returns
RetrainReplaceDone ==
  /\ rt.pc = "replace_write"
  /\ prod' = best
  /\ rt' = [rt EXCEPT !.pc = "list", !.replaced = TRUE]
  /\ UNCHANGED <<proc, cascade, clock, store, backup, best, manifest, gate, lab>>

\* line 105: what NEWLY_LABELED_DIR.iterdir() yields: every image and
\* sidecar in the directory now (a sub-directory fails is_file, line 106)
LabeledFiles ==
  {<<"jpg", n>> : n \in labeledJpg} \cup {<<"txt", n>> : n \in DOMAIN labeledTxt}

\* lines 103-105: the consumed directory is made and the listing is taken
RetrainList ==
  /\ rt.pc = "list"
  /\ rt' = [rt EXCEPT !.pc = "consume", !.list = LabeledFiles]
  /\ UNCHANGED <<proc, cascade, clock, store, weights, gate, lab>>

\* a label call that holds the sidecar n open follows it when it is renamed
FollowRename(n) ==
  [w \in LabelWorkers |->
     IF lab[w].pc = "write" /\ lab[w].file = n
       THEN [lab[w] EXCEPT !.at = IF lab[w].at = "labeled" THEN "consumed" ELSE "gone"]
       ELSE lab[w]]

\* lines 105-107: one file of the listing, in the order the directory
\* gives them, is moved to consumed_labeled_data
RetrainConsume ==
  /\ rt.pc = "consume"
  /\ \E e \in rt.list :
       /\ rt' = [rt EXCEPT !.list = rt.list \ {e}]
       /\ IF e[1] = "jpg"
            THEN /\ labeledJpg' = labeledJpg \ {e[2]}
                 /\ consumedJpg' = IF e[2] \in labeledJpg
                                     THEN consumedJpg \cup {e[2]} ELSE consumedJpg
                 /\ UNCHANGED <<labeledTxt, consumedTxt, lab>>
            ELSE /\ labeledTxt' = Del(labeledTxt, e[2])
                 /\ consumedTxt' = IF e[2] \in DOMAIN labeledTxt
                                     THEN Put(consumedTxt, e[2], labeledTxt[e[2]])
                                     ELSE consumedTxt
                 /\ lab' = IF e[2] \in DOMAIN labeledTxt THEN FollowRename(e[2]) ELSE lab
                 /\ UNCHANGED <<labeledJpg, consumedJpg>>
  /\ UNCHANGED <<proc, cascade, clock, pendingDir, pending, strayDir, stray, weights, gate>>

\* lines 108 and 112: the loop is over: return True
RetrainReturn ==
  /\ rt.pc = "consume"
  /\ rt.list = {}
  /\ rt' = [rt EXCEPT !.pc = "return", !.ret = "True"]
  /\ UNCHANGED <<proc, cascade, clock, store, weights, gate, lab>>

\* lines 60, 70 and 112: the script ends; after a crash the process is gone
RetrainExit ==
  /\ rt.pc \in {"return", "crashed"}
  /\ rt' = RetrainIdle
  /\ UNCHANGED <<proc, cascade, clock, store, weights, gate, lab>>

\* the script's process dies (it is run by hand, lines 114-115)
RetrainCrash ==
  /\ rt.pc \notin {"idle", "return", "crashed"}
  /\ rt' = [rt EXCEPT !.pc = "crashed"]
  /\ UNCHANGED <<proc, cascade, clock, store, weights, gate, lab>>

\* ------------------------------------------------------------ the cascade
MaxCand == 2                    \* detections per image
HISTORY_MAX == 50               \* deque(maxlen=50)

Image == [w |-> 4, h |-> 4]     \* img_cv.shape[:2]

\* What the detector can report for a region, with what the verifier does
\* with the crop (the probability it gives, or that it raises): inside the
\* image, past its right edge, and left of it (x2 < 0).
Detections ==
  { [conf |-> 90004, bbox |-> <<1, 1, 3, 3>>,   prob |-> 8, raises |-> FALSE],
    [conf |-> 45400, bbox |-> <<1, 1, 3, 3>>,   prob |-> 5, raises |-> FALSE],
    [conf |-> 45400, bbox |-> <<1, 1, 3, 3>>,   prob |-> 8, raises |-> TRUE],
    [conf |-> 90000, bbox |-> <<5, 1, 7, 3>>,   prob |-> 8, raises |-> TRUE],
    [conf |-> 45400, bbox |-> <<-3, 1, -1, 3>>, prob |-> 2, raises |-> FALSE] }

RECURSIVE SeqsUpTo(_, _)
SeqsUpTo(S, n) ==
  IF n = 0 THEN {<<>>}
  ELSE LET shorter == SeqsUpTo(S, n - 1)
       IN shorter \cup {Append(q, x) : q \in {r \in shorter : Len(r) = n - 1}, x \in S}

Scores == {1, 5, 9}             \* reconstruction errors

\* The requests: an image that cannot be decoded, one on which the
\* detector's inference raises, or a decodable one with the autoencoder
\* absent or present (and the error it then computes) and the regions the
\* detector reports, in the detector's order.
Requests ==
  {[decodable |-> FALSE, detects |-> FALSE, loaded |-> FALSE, mse |-> 1, dets |-> <<>>],
   [decodable |-> TRUE, detects |-> FALSE, loaded |-> TRUE, mse |-> 1, dets |-> <<>>]} \cup
  {[decodable |-> TRUE, detects |-> TRUE, loaded |-> a[1], mse |-> a[2], dets |-> q] :
     a \in {<<FALSE, 1>>} \cup {<<TRUE, m>> : m \in Scores},
     q \in SeqsUpTo(Detections, MaxCand)}

\* a missing autoencoder taken for an anomaly
detect_anomaly_fail_closed(loaded, mse) ==
  IF ~loaded
    THEN [status |-> "ANOMALY", anomaly_score |-> 0, threshold |-> anomaly_threshold]
    ELSE [status |-> IF mse > anomaly_threshold THEN "ANOMALY" ELSE "NORMAL",
          anomaly_score |-> mse, threshold |-> anomaly_threshold]

\* anomaly_service.py lines 37-67
detect_anomaly(loaded, mse) ==
  IF ~loaded
    THEN [status |-> "PASS", anomaly_score |-> 0, threshold |-> anomaly_threshold]
    ELSE [status |-> IF mse > anomaly_threshold THEN "ANOMALY" ELSE "NORMAL",
          anomaly_score |-> mse, threshold |-> anomaly_threshold]

Max(a, b) == IF a >= b THEN a ELSE b
Min(a, b) == IF a <= b THEN a ELSE b

\* defects.sort(key=confidence, reverse=True): stable, by the rounded value
RECURSIVE InsertDesc(_, _)
InsertDesc(d, q) ==
  IF q = <<>> THEN <<d>>
  ELSE IF Head(q).confidence >= d.confidence
         THEN <<Head(q)>> \o InsertDesc(d, Tail(q))
         ELSE <<d>> \o q

\* the list left in the detector's order
DetectorOrder(q) == q

RECURSIVE SortDesc(_)
SortDesc(q) ==
  IF q = <<>> THEN <<>>
  ELSE InsertDesc(q[Len(q)], SortDesc(SubSeq(q, 1, Len(q) - 1)))

RECURSIVE MaxConf(_)
MaxConf(q) == IF q = <<>> THEN 0 ELSE Max(Head(q).conf, MaxConf(Tail(q)))

\* model_service.py lines 64-107: the defect list and the top confidence
predict_defects(dets) ==
  [defects |-> SortDesc([k \in 1..Len(dets) |->
                 [confidence |-> Round4(dets[k].conf), bbox |-> dets[k].bbox,
                  prob |-> dets[k].prob, raises |-> dets[k].raises]]),
   confidence |-> IF MaxConf(dets) > 0 THEN Round4(MaxConf(dets)) ELSE 0]

\* the length of a[lo:hi] for an axis of n elements (negative bounds count
\* from the end)
SliceLen(lo, hi, n) ==
  LET norm(x) == IF x < 0 THEN Max(x + n, 0) ELSE Min(x, n)
  IN Max(norm(hi) - norm(lo), 0)

\* app.py lines 131-136: the clamped crop's size
CropSize(bbox) ==
  LET x1 == Max(0, bbox[1])
      y1 == Max(0, bbox[2])
      x2 == Min(Image.w, bbox[3])
      y2 == Min(Image.h, bbox[4])
  IN SliceLen(y1, y2, Image.h) * SliceLen(x1, x2, Image.w)

\* cnn_lstm_service.py line 159
Verdict(prob) == IF prob > 5 THEN "DEFECTIVE" ELSE "GOOD"

\* the verifier's exception caught inside the loop
VerifierErrorSwallowed(d) == FALSE

\* app.py line 142: an exception of predict_cnn_lstm leaves the loop for
\* the handler at line 173
VerifierRaises(d) == d.raises

\* app.py lines 130-152: the loop over the detector's candidates
RECURSIVE Verify(_, _, _)
Verify(defects, verified, discarded) ==
  IF defects = <<>>
    THEN [verified |-> verified, discarded |-> discarded, failed |-> FALSE]
  ELSE LET d == Head(defects) IN
       IF CropSize(d.bbox) = 0
         THEN Verify(Tail(defects), verified, discarded)
       ELSE IF VerifierRaises(d)
         THEN [verified |-> verified, discarded |-> discarded, failed |-> TRUE]
       ELSE IF Verdict(d.prob) = "DEFECTIVE"
         THEN Verify(Tail(defects), Append(verified, d), discarded)
         ELSE Verify(Tail(defects), verified, Append(discarded, d))

\* the aggregate taken from the verified defects alone
StatusDefectsOnly(verified, anomaly_result) ==
  IF Len(verified) > 0 THEN "FAIL" ELSE "PASS"

\* app.py line 154
Status(verified, anomaly_result) ==
  IF Len(verified) > 0 \/ anomaly_result.status = "ANOMALY" THEN "FAIL" ELSE "PASS"

\* app.py lines 45-55: the new entry's id is the current length plus one;
\* appendleft on a full deque drops the entry at the other end
RecordHistory ==
  LET entry == Len(history_store) + 1
      grown == <<entry>> \o history_store
  IN IF Len(grown) > HISTORY_MAX THEN SubSeq(grown, 1, HISTORY_MAX) ELSE grown

\* app.py lines 173-174: the handler's answer to any exception
ErrorResponse == [code |-> 500, error |-> "message"]

\* app.py lines 105-121: the image is read, scored and searched, and the
\* gate is entered.  An image that cannot be decoded raises in
\* detect_anomaly or in predict_defects (line 59), and so does a failing
\* inference (line 61); both reach line 174 before the gate is called.
PipelineRequest(req) ==
  /\ pl.pc = "idle"
  /\ yolo_model # Partial
  /\ IF ~req.decodable \/ ~req.detects
       THEN pl' = [PipelineIdle EXCEPT !.pc = "return", !.req = req,
                                       !.model = yolo_model,
                                       !.resp = ErrorResponse]
       ELSE LET yolo == predict_defects(req.dets)
                g    == GateEnter(yolo.confidence)
            IN pl' = [PipelineIdle EXCEPT
                        !.pc = IF g.pc = "write" THEN "gate_write" ELSE "verify",
                        !.req = req,
                        !.model = yolo_model,
                        !.anomaly_result = detect_anomaly(req.loaded, req.mse),
                        !.defects = yolo.defects,
                        !.confidence = yolo.confidence,
                        !.file = g.file,
                        !.al = g.ret]
  /\ UNCHANGED <<proc, history_store, clock, store, weights, gate, lab, rt>>

\* active_learning_service.py lines 43-49, called from line 121
PipelineGateWrite ==
  /\ pl.pc = "gate_write"
  /\ pending' = ImWrite(pl.file)
  /\ \E r \in GateRets : pl' = [pl EXCEPT !.pc = "verify", !.al = r]
  /\ UNCHANGED <<proc, history_store, clock, pendingDir, labeledJpg, labeledTxt, strayDir,
                 stray, consumedJpg, consumedTxt, weights, gate, lab, rt>>

\* active_learning_service.py lines 46-49: the image cannot be written.
\* cv2.imwrite then returns False, which line 46 does not look at, so that
\* line 47 returns FLAGGED, or it raises and line 49 returns ERROR.
PipelineGateWriteFail ==
  /\ pl.pc = "gate_write"
  /\ \E r \in {"FLAGGED", "ERROR"} : pl' = [pl EXCEPT !.pc = "verify", !.al = r]
  /\ UNCHANGED <<proc, history_store, clock, store, weights, gate, lab, rt>>

\* app.py lines 123-170: verification, the aggregate status, the history
\* entry and the response
PipelineRespond ==
  /\ pl.pc = "verify"
  /\ LET v == Verify(pl.defects, <<>>, <<>>)
     IN IF v.failed
          THEN /\ pl' = [PipelineIdle EXCEPT !.pc = "return", !.req = pl.req,
                                             !.model = pl.model,
                                             !.al = pl.al, !.file = pl.file,
                                             !.resp = ErrorResponse]
               /\ history_store' = history_store
          ELSE /\ pl' = [PipelineIdle EXCEPT
                           !.pc = "return",
                           !.req = pl.req,
                           !.model = pl.model,
                           !.al = pl.al,
                           !.file = pl.file,
                           !.resp = [code |-> 200,
                                     status |-> Status(v.verified, pl.anomaly_result),
                                     defects |-> v.verified,
                                     discarded_defects |-> v.discarded,
                                     confidence |-> pl.confidence,
                                     anomaly_info |-> pl.anomaly_result,
                                     active_learning_flagged |-> (pl.al = "FLAGGED")]]
               /\ history_store' = RecordHistory
  /\ UNCHANGED <<proc, clock, store, weights, gate, lab, rt>>

\* app.py lines 171 and 174: the response leaves the handler
PipelineReturn ==
  /\ pl.pc = "return"
  /\ pl' = PipelineIdle
  /\ UNCHANGED <<proc, history_store, clock, store, weights, gate, lab, rt>>

\* /api/pipeline with the requests of the given set
PipelineSteps(reqs) ==
  \/ \E req \in reqs : PipelineRequest(req)
  \/ PipelineGateWrite
  \/ PipelineRespond
  \/ PipelineReturn

PipelineNext == PipelineSteps(Requests)

\* app.py lines 29-34: the serving process is started (again), with no
\* request in flight: the weights are loaded and the history is empty
AppStart ==
  /\ pl.pc = "idle"
  /\ trigger = "none"
  /\ \A w \in GateWorkers : gate[w].pc = "idle"
  /\ \A w \in LabelWorkers : lab[w].pc = "idle"
  /\ yolo_model' = load_model
  /\ history_store' = <<>>
  /\ UNCHANGED <<trigger, pl, clock, store, weights, gate, lab, rt>>

\* ------------------------------------------------------------------ Spec
\* inspection requests reaching the gate, served by the given workers
GateSteps(workers) ==
  \/ \E w \in workers, c \in GateConfs : GateCall(w, c)
  \/ \E w \in workers : GateWrite(w)
  \/ \E w \in workers : GateReturn(w)

GateNext == GateSteps(GateWorkers)

\* /api/label with the file names and box lists of the given sets, on
\* storage that does not fail
LabelRunStepsBy(workers, names, boxes) ==
  \/ \E w \in workers, f \in names, b \in boxes : LabelCall(w, f, b)
  \/ \E w \in workers : LabelMove(w)
  \/ \E w \in workers : LabelOpen(w)
  \/ \E w \in workers : LabelWrite(w)
  \/ \E w \in workers : LabelReturn(w)

LabelRunSteps(names, boxes) == LabelRunStepsBy(OneLabeler, names, boxes)

\* /api/label with the file names and box lists of the given sets
LabelSteps(names, boxes) ==
  \/ \E w \in OneLabeler, f \in names, b \in boxes : LabelCall(w, f, b)
  \/ \E w \in OneLabeler : LabelMove(w)
  \/ \E w \in OneLabeler : LabelOpen(w)
  \/ \E w \in OneLabeler : LabelWrite(w)
  \/ \E w \in OneLabeler : LabelMoveFail(w)
  \/ \E w \in OneLabeler : LabelOpenFail(w)
  \/ \E w \in OneLabeler : LabelWriteFail(w)
  \/ \E w \in OneLabeler : LabelReturn(w)

LabelNext == LabelSteps(AllNames \cup {EmptyName}, BoxInputs)

RetrainNext ==
  \/ RetrainStart
  \/ RetrainYaml
  \/ RetrainModelCheck
  \/ RetrainTrain
  \/ RetrainBestCheck
  \/ RetrainBackup
  \/ RetrainReplace
  \/ RetrainReplaceDone
  \/ RetrainList
  \/ RetrainConsume
  \/ RetrainReturn
  \/ RetrainExit
  \/ RetrainCrash

\* The whole service: the clock, the requests and the retraining script.
Next ==
  \/ Tick \/ GateNext \/ LabelNext \/ RetrainNext \/ PipelineNext \/ TriggerNext
  \/ AppStart \/ PipelineGateWriteFail

Spec == Init /\ [][Next]_vars

\* The review store under inspection and labeling requests alone.
NextStore == Tick \/ GateSteps({"g1"}) \/ LabelNext

SpecStore == Init /\ [][NextStore]_vars

\* The review directories outlive the process: the service can start with
\* images flagged by an earlier run waiting in PENDING_DIR, and the
\* retraining script can be run before any model has been trained.
InitReview ==
  /\ clock = 0
  /\ pendingDir = TRUE
  /\ pending \in SUBSET AllNames
  /\ labeledJpg = {}
  /\ labeledTxt = EmptyMap
  /\ strayDir = FALSE
  /\ stray = {}
  /\ consumedJpg = {}
  /\ consumedTxt = EmptyMap
  /\ prod \in {0, 1}
  /\ backup = 0
  /\ best = 0
  /\ manifest = FALSE
  /\ gate = [w \in GateWorkers |-> GateIdle]
  /\ lab = [w \in LabelWorkers |-> LabelIdle]
  /\ rt = RetrainIdle
  /\ pl = PipelineIdle
  /\ history_store = <<>>
  /\ yolo_model = load_model
  /\ trigger = "none"

\* Labeling requests and the retraining script over such a store.
NextRetrain == LabelRunSteps(AllNames, {NoneBoxes, <<Box1>>}) \/ RetrainNext

SpecRetrain == InitReview /\ [][NextRetrain]_vars

\* Labeling requests and the trigger test over a store that holds images
\* waiting for review.
NextLabel == LabelSteps(AllNames, BoxInputs) \/ TriggerNext

SpecLabel == InitReview /\ [][NextLabel]_vars

\* The serving process beside the retraining script: the labeled directory
\* holds an image labeled earlier, inspection requests for a clean image
\* arrive, and the process can be started again at any time.
LabeledEarlier == PendingName(0, 45400)

InitPublish ==
  /\ clock = 0
  /\ pendingDir = TRUE
  /\ pending = {}
  /\ labeledJpg = {LabeledEarlier}
  /\ labeledTxt = Put(EmptyMap, LabeledEarlier, SidecarText(<<Box1>>))
  /\ strayDir = FALSE
  /\ stray = {}
  /\ consumedJpg = {}
  /\ consumedTxt = EmptyMap
  /\ prod = 1
  /\ backup = 0
  /\ best = 0
  /\ manifest = FALSE
  /\ gate = [w \in GateWorkers |-> GateIdle]
  /\ lab = [w \in LabelWorkers |-> LabelIdle]
  /\ rt = RetrainIdle
  /\ pl = PipelineIdle
  /\ history_store = <<>>
  /\ yolo_model = load_model
  /\ trigger = "none"

CleanRequests == {r \in Requests : r.decodable /\ r.detects /\ ~r.loaded /\ r.dets = <<>>}

ServeNext == PipelineSteps(CleanRequests)

\* the script's own steps: it runs on unless it is killed
RetrainRun ==
  \/ RetrainStart
  \/ RetrainYaml
  \/ RetrainModelCheck
  \/ RetrainTrain
  \/ RetrainBestCheck
  \/ RetrainBackup
  \/ RetrainReplace
  \/ RetrainReplaceDone
  \/ RetrainList
  \/ RetrainConsume
  \/ RetrainReturn
  \/ RetrainExit

NextPublish == ServeNext \/ RetrainNext \/ AppStart

SpecPublish == InitPublish /\ [][NextPublish]_vars

\* The serving process while it stays up: a request that has arrived is
\* served, and the script, unless it is killed, runs to its end.
NextServe == ServeNext \/ RetrainNext

SpecServe ==
  InitPublish /\ [][NextServe]_vars /\ WF_vars(ServeNext) /\ WF_vars(RetrainRun)

\* The service with its labeling traffic, and the two things only an
\* operator or another program does: calling check_retrain_trigger and
\* running the retraining script.  A label request that has arrived is
\* served, a trigger test returns, and a script that has been started runs
\* on; nothing in the code calls the test or starts the script.
LabelTraffic == LabelRunSteps(AllNames, {<<Box1>>})

RetrainProceed ==
  \/ RetrainYaml
  \/ RetrainModelCheck
  \/ RetrainTrain
  \/ RetrainBestCheck
  \/ RetrainBackup
  \/ RetrainReplace
  \/ RetrainReplaceDone
  \/ RetrainList
  \/ RetrainConsume
  \/ RetrainReturn
  \/ RetrainExit

NextCoordinator == LabelTraffic \/ TriggerNext \/ RetrainNext

SpecCoordinator ==
  /\ InitReview
  /\ [][NextCoordinator]_vars
  /\ WF_vars(LabelTraffic)
  /\ WF_vars(TriggerReturn)
  /\ WF_vars(RetrainProceed)

\* Inspection requests with at most one candidate, on storage that can
\* fail when the gate writes the image.
FewCandidates == {r \in Requests : Len(r.dets) <= 1}

NextPersist == PipelineSteps(FewCandidates) \/ PipelineGateWriteFail

SpecPersist == Init /\ [][NextPersist]_vars

\* Regions of three confidences that the verifier accepts or rejects, in
\* every order the detector can report them.
OrderDetections ==
  {[conf |-> c, bbox |-> <<1, 1, 3, 3>>, prob |-> p, raises |-> FALSE] :
     c \in {90004, 45400, 60000}, p \in {8, 2}}

OrderRequests ==
  {[decodable |-> TRUE, detects |-> TRUE, loaded |-> FALSE, mse |-> 1, dets |-> q] :
     q \in SeqsUpTo(OrderDetections, MaxCand)}

NextOrder == PipelineSteps(OrderRequests)

SpecOrder == Init /\ [][NextOrder]_vars

\* Label requests whose boxes lie inside the image or reach past its
\* right edge (a centre at 1.5).
WideBox == <<0, 15, 5, 10, 10>>

RangeBoxes == {<<Box1>>, <<WideBox>>, <<Box1, WideBox>>}

NextRange == LabelRunSteps(AllNames, RangeBoxes)

SpecRange == InitReview /\ [][NextRange]_vars

\* Two label requests at the same time.
NextRace == LabelRunStepsBy(LabelWorkers, AllNames, BoxInputs)

SpecRace == InitReview /\ [][NextRace]_vars

\* Two inspection requests at the gate at the same time.
NextGate == Tick \/ GateNext

SpecGate == Init /\ [][NextGate]_vars

\* One inspection request after another.
SpecCascade == Init /\ [][PipelineNext]_vars

\* ================================================================ claims

\* C1: every inspection request that completes without error reports FAIL
\* exactly when its confirmed-defects list is non-empty or the anomaly
\* verdict is ANOMALY, and PASS otherwise.
C1_AggregateStatus ==
  (pl.pc = "return" /\ pl.resp.code = 200) =>
    /\ pl.resp.status \in {"PASS", "FAIL"}
    /\ pl.resp.status = "FAIL" <=>
         (Len(pl.resp.defects) > 0 \/ pl.resp.anomaly_info.status = "ANOMALY")

\* C1's case: anomaly score 0.9 over threshold 0.5, no confirmed defect, FAIL.
C1_Witness ==
  /\ pl.pc = "return"
  /\ pl.resp.code = 200
  /\ pl.resp.defects = <<>>
  /\ pl.resp.discarded_defects = <<>>
  /\ pl.resp.anomaly_info.anomaly_score = 9
  /\ pl.resp.anomaly_info.threshold = 5
  /\ pl.resp.status = "FAIL"

\* C2: a gate call with confidence below the threshold adds exactly one new
\* file to the pending directory; a call at or above the threshold returns
\* OK and leaves the pending directory as it was.
C2_GateAddsExactlyOne ==
  [][\A w \in GateWorkers :
       /\ (gate[w].pc = "idle" /\ gate'[w].pc # "idle") =>
            IF gate'[w].conf < CONFIDENCE_THRESHOLD
              THEN gate'[w].pc = "write"
              ELSE gate'[w].pc = "return" /\ gate'[w].ret = "OK" /\ pending' = pending
       /\ (gate[w].pc = "write" /\ gate'[w].pc = "return") =>
            Cardinality(pending') = Cardinality(pending) + 1]_vars

\* C3: a label call on a pending image, unless the storage fails, moves it
\* to the labeled directory, and a label call on an image that has been
\* labeled already fails with "File not found".
C3_LabeledOnce ==
  [][\A w \in LabelWorkers :
       /\ (/\ lab[w].pc = "move" /\ lab'[w].pc # "move"
           /\ lab[w].file \in pending /\ lab'[w].ret # "ERROR") =>
            /\ lab[w].file \notin pending'
            /\ lab[w].file \in labeledJpg'
       /\ (lab[w].pc = "idle" /\ lab'[w].pc # "idle" /\ lab'[w].file \in labeledJpg) =>
            lab'[w].pc = "return" /\ lab'[w].ret = "File not found"]_vars

\* C4: a label call whose id names no pending image (an absent, labeled or
\* consumed name, or the empty name) returns "File not found", and no step
\* of it changes the review directories.
C4_NotPendingNotFound ==
  [][\A w \in LabelWorkers :
       LET f == IF lab[w].pc = "idle" THEN lab'[w].file ELSE lab[w].file
       IN (/\ lab'[w] # lab[w]
           /\ lab'[w].pc # "idle"
           /\ (f = EmptyName \/ (lab[w].pc = "idle" /\ f \notin pending)))
          => /\ store' = store
             /\ lab'[w].pc = "return" => lab'[w].ret = "File not found"]_vars

\* C5: an image leaves the pending directory only for the labeled one and
\* the labeled directory only for the consumed one, never leaves the
\* consumed directory, and is never put back into an earlier directory.
C5_MonotonicStates ==
  [][\A n \in AllNames :
       /\ (n \in pending /\ n \notin pending') => n \in labeledJpg'
       /\ (n \in labeledJpg /\ n \notin labeledJpg') => n \in consumedJpg'
       /\ n \in consumedJpg => n \in consumedJpg'
       /\ (n \in labeledJpg' /\ n \notin labeledJpg) => n \in pending
       /\ (n \in consumedJpg' /\ n \notin consumedJpg) => n \in labeledJpg
       /\ (n \in pending' /\ n \notin pending) =>
            (n \notin labeledJpg /\ n \notin consumedJpg)]_vars

\* C6: a retraining run moves to the consumed directory only images that
\* were labeled when it started, and all of those by the time it returns.
C6_ConsumesStartSet ==
  [][/\ (rt.pc = "consume" /\ rt'.pc = "consume") =>
          (consumedJpg' \ consumedJpg) \subseteq rt.labeled_images
     /\ (rt.pc = "consume" /\ rt'.pc = "return") =>
          rt.labeled_images \subseteq consumedJpg']_vars

\* C7: in a retraining run the production weights are replaced only after
\* they have been copied to the backup, and an image is moved to the
\* consumed directory only after the production weights have been replaced
\* by the checkpoint.
C7_BackupReplaceConsume ==
  [][/\ (rt.pc = "replace" /\ rt'.pc = "replace_write") => (rt.backed /\ backup = prod)
     /\ prod' # prod =>
          \/ rt.pc = "replace" /\ rt.backed /\ backup = prod
          \/ rt.pc = "replace_write" /\ rt.backed /\ prod' = best
     /\ consumedJpg' # consumedJpg =>
          (rt.pc = "consume" /\ rt.backed /\ rt.replaced /\ prod = best)]_vars

\* C7's case: a run has backed up version 1, installed version 2 and
\* consumed an image.
C7_Witness ==
  /\ rt.pc = "return"
  /\ rt.ret = "True"
  /\ rt.replaced
  /\ backup = 1
  /\ prod = 2
  /\ rt.labeled_images # {}
  /\ rt.labeled_images \subseteq consumedJpg

\* C8: after a crash of the retraining script every image that was labeled
\* when the run started is either still in the labeled directory, together
\* with the sidecar it had then, or in the consumed directory.
C8_CrashLosesNothing ==
  rt.pc = "crashed" =>
    \A n \in rt.labeled_images :
      \/ n \in labeledJpg /\ (n \in rt.startTxt => n \in DOMAIN labeledTxt)
      \/ n \in consumedJpg /\ n \notin labeledJpg

\* C9: once the trainer has finished without writing a checkpoint, no step
\* of the run changes the production weights, the backup or the directory
\* any image is in.
C9_NoCheckpointNoChange ==
  [][(/\ rt.pc \in {"best_check", "backup", "replace", "replace_write", "list", "consume"}
      /\ ~rt.produced
      /\ rt' # rt)
     => UNCHANGED <<prod, backup, pending, labeledJpg, consumedJpg>>]_vars

\* C10: a retraining run that finds no labeled image, or no production
\* model, never reaches the trainer and changes neither the review
\* directories nor the weights, the backup or the manifest.
C10_PreconditionNoEffect ==
  [][(/\ rt' # rt
      /\ \/ rt.pc = "idle" /\ labeledJpg = {}
         \/ rt.pc \notin {"idle", "return", "crashed"} /\ prod = 0)
     => /\ UNCHANGED <<store, weights>>
        /\ rt'.pc \in {"yaml", "model_check", "return", "crashed"}]_vars

AdapterFails(req) ==
  \/ ~req.decodable
  \/ ~req.detects
  \/ \E k \in 1..Len(req.dets) : CropSize(req.dets[k].bbox) > 0 /\ req.dets[k].raises

\* C12: a request in which an adapter fails is answered with an error and
\* its message and nothing of an inspection result, and the image the gate
\* stored for it earlier is still in the pending directory.
C12_FailureNoPartialResult ==
  (pl.pc = "return" /\ AdapterFails(pl.req)) =>
    /\ pl.resp.code = 500
    /\ DOMAIN pl.resp = {"code", "error"}
    /\ pl.al = "FLAGGED" => pl.file \in pending

\* C12's case: the verifier has failed after the gate flagged the image.
C12_Witness ==
  /\ pl.pc = "return"
  /\ pl.req.decodable /\ pl.req.detects
  /\ pl.resp.code = 500
  /\ pl.al = "FLAGGED"
  /\ pl.file \in pending

\* the width and height left of a bbox once clamped to the image
ClampedWidth(bbox)  == Max(0, Min(Image.w, bbox[3]) - Max(0, bbox[1]))
ClampedHeight(bbox) == Max(0, Min(Image.h, bbox[4]) - Max(0, bbox[2]))

\* C13: no candidate whose clamped bbox has zero width or zero height is
\* in the confirmed or in the discarded list of a result, and the verifier
\* is not run on it (its raising does not fail the request).
C13_ZeroAreaExcluded ==
  (pl.pc = "return" /\ pl.resp.code = 200) =>
    \A q \in {pl.resp.defects, pl.resp.discarded_defects} :
      \A k \in 1..Len(q) :
        ClampedWidth(q[k].bbox) > 0 /\ ClampedHeight(q[k].bbox) > 0

C15_DistinctNames ==
  \A w1, w2 \in GateWorkers :
    (w1 # w2 /\ gate[w1].file # NoFile /\ gate[w2].file # NoFile) =>
      gate[w1].file # gate[w2].file

\* C16: a label call that returns a storage error has left its image in
\* the pending directory, and neither the image nor a sidecar of it in the
\* labeled directory.
C16_StorageErrorNoChange ==
  [][\A w \in LabelWorkers :
       (lab[w].pc \in {"move", "open", "write"} /\ lab'[w].pc = "return"
          /\ lab'[w].ret = "ERROR") =>
         /\ lab[w].file \in pending'
         /\ lab[w].file \notin labeledJpg'
         /\ lab[w].file \notin DOMAIN labeledTxt']_vars

\* a sidecar's text up to the first line break, and what follows it
RECURSIVE UpTo(_, _)
UpTo(text, c) ==
  IF text = <<>> \/ Head(text) = c THEN <<>> ELSE <<Head(text)>> \o UpTo(Tail(text), c)

After(text, c) == SubSeq(text, Len(UpTo(text, c)) + 2, Len(text))

\* split(): the tokens of a line
RECURSIVE Split(_, _)
Split(text, c) ==
  IF text = <<>> THEN <<>> ELSE <<UpTo(text, c)>> \o Split(After(text, c), c)

DigitVal(ch) == CHOOSE d \in 0..9 : Digit(d) = ch

\* int() and float() of a token, the float in tenths
RECURSIVE ParseInt(_)
ParseInt(tok) ==
  IF tok = <<>> THEN 0 ELSE 10 * ParseInt(SubSeq(tok, 1, Len(tok) - 1)) + DigitVal(tok[Len(tok)])

ParseFloat(tok) == 10 * ParseInt(UpTo(tok, ".")) + ParseInt(After(tok, "."))

ParseLine(line) ==
  LET t == Split(line, " ")
  IN <<ParseInt(t[1]), ParseFloat(t[2]), ParseFloat(t[3]), ParseFloat(t[4]), ParseFloat(t[5])>>

\* the boxes read back from a sidecar, line by line
ParseSidecar(text) ==
  LET lines == Split(text, "\n") IN [k \in 1..Len(lines) |-> ParseLine(lines[k])]

\* C17: after a successful label call with a non-empty box list the
\* sidecar of the image, parsed line by line, gives the boxes of the call
\* in their order.
C17_SidecarRoundTrip ==
  \A w \in LabelWorkers :
    (lab[w].pc = "return" /\ lab[w].ret = "SUCCESS"
       /\ lab[w].boxes # NoneBoxes /\ lab[w].boxes # <<>>) =>
      /\ lab[w].file \in DOMAIN labeledTxt
      /\ ParseSidecar(labeledTxt[lab[w].file]) = lab[w].boxes

\* C17's case: two boxes, the full-image box among them, written and read
\* back.
C17_Witness ==
  \E w \in LabelWorkers :
    /\ lab[w].pc = "return" /\ lab[w].ret = "SUCCESS"
    /\ lab[w].boxes = <<Box2, Box1>>
    /\ lab[w].file \in DOMAIN labeledTxt
    /\ ParseSidecar(labeledTxt[lab[w].file]) = <<Box2, Box1>>

\* C18: a successful label call with an empty box list leaves no sidecar
\* of the image in the labeled directory.
C18_EmptyBoxesNoSidecar ==
  \A w \in LabelWorkers :
    (lab[w].pc = "return" /\ lab[w].ret = "SUCCESS" /\ lab[w].boxes = <<>>) =>
      lab[w].file \notin DOMAIN labeledTxt

\* C19: the serving process never loads a production weights file that is
\* written in part: whenever it reads the file, the file is complete.
C19_NeverPartialWeights == yolo_model # Partial

\* C20: once a retraining run has replaced the production weights, an
\* inspection request is eventually answered by the detector holding the
\* weights that are then in production.
C20_Republished ==
  (rt.replaced /\ prod = best) ~>
    (pl.pc = "return" /\ pl.resp.code = 200 /\ pl.model = prod)

\* C21: whenever the number of labeled images is at the trigger count or
\* above, a retraining run is eventually started, unless the number has
\* fallen below it again.
C21_TriggerStartsRetrain ==
  (Cardinality(labeledJpg) >= TRIGGER_COUNT) ~>
    (rt.pc # "idle" \/ Cardinality(labeledJpg) < TRIGGER_COUNT)

\* C22: when two label calls for the same pending image have run at the
\* same time (both found it pending), exactly one has returned success, the image is in the
\* labeled directory and no longer pending, and its sidecar is the one the
\* successful call writes.
C22_OneLabelWins ==
  \A w1, w2 \in LabelWorkers :
    (/\ w1 # w2
     /\ lab[w1].pc = "return" /\ lab[w2].pc = "return"
     /\ lab[w1].file = lab[w2].file
     /\ lab[w1].ret # "File not found" /\ lab[w2].ret # "File not found") =>
      /\ (lab[w1].ret = "SUCCESS") # (lab[w2].ret = "SUCCESS")
      /\ lab[w1].file \in labeledJpg /\ lab[w1].file \notin pending
      /\ \A w \in {w1, w2} :
           lab[w].ret = "SUCCESS" =>
             IF WritesSidecar(lab[w].boxes)
               THEN /\ lab[w].file \in DOMAIN labeledTxt
                    /\ labeledTxt[lab[w].file] = SidecarText(lab[w].boxes)
               ELSE lab[w].file \notin DOMAIN labeledTxt

\* C22's case: both calls passed the existence test, one moved the image
\* and wrote its boxes, the other failed at the move.
C22_Witness ==
  /\ lab["l1"].pc = "return" /\ lab["l2"].pc = "return"
  /\ lab["l1"].file = lab["l2"].file
  /\ lab["l1"].ret = "SUCCESS" /\ lab["l2"].ret = "ERROR"
  /\ lab["l1"].boxes = <<Box1>> /\ lab["l2"].boxes = <<Box2, Box1>>
  /\ lab["l1"].file \in DOMAIN labeledTxt
  /\ labeledTxt[lab["l1"].file] = SidecarText(<<Box1>>)

\* C23: an answered request whose gate decided to flag but whose image is
\* not in the pending directory got ERROR from the gate, reports the
\* active-learning flag as false, and has the status its candidates and
\* anomaly verdict give.
C23_GatePersistFailure ==
  (/\ pl.pc = "return" /\ pl.resp.code = 200
   /\ pl.file # NoFile /\ pl.file \notin pending) =>
    /\ pl.al = "ERROR"
    /\ ~pl.resp.active_learning_flagged
    /\ pl.resp.status =
         Status(Verify(predict_defects(pl.req.dets).defects, <<>>, <<>>).verified,
                detect_anomaly(pl.req.loaded, pl.req.mse))

NonIncreasing(q) ==
  \A i, j \in 1..Len(q) : i < j => q[i].confidence >= q[j].confidence

\* C24: in every successful response the confirmed list and the discarded
\* list are each ordered by non-increasing confidence.
C24_ListsByConfidence ==
  (pl.pc = "return" /\ pl.resp.code = 200) =>
    /\ NonIncreasing(pl.resp.defects)
    /\ NonIncreasing(pl.resp.discarded_defects)

C24_Witness ==
  /\ pl.pc = "return" /\ pl.resp.code = 200
  /\ Len(pl.req.dets) = 2
  /\ pl.req.dets[1].conf < pl.req.dets[2].conf
  /\ Len(pl.resp.defects) = 2
  /\ pl.resp.defects[1].confidence > pl.resp.defects[2].confidence

\* C25: every line of every sidecar in the labeled directory has its
\* centre, width and height within [0, 1] (0..10 tenths).
C25_CoordinatesInRange ==
  \A f \in DOMAIN labeledTxt :
    labeledTxt[f] # <<>> =>
      LET boxes == ParseSidecar(labeledTxt[f])
      IN \A k \in 1..Len(boxes) : \A i \in 2..5 : boxes[k][i] \in 0..10

\* C26: a run that returns the success value has replaced the production
\* weights and has moved the images it started with out of the labeled
\* directory.
C26_SuccessMeansReplaced ==
  (rt.pc = "return" /\ rt.ret = "True") =>
    /\ rt.replaced
    /\ rt.labeled_images \cap labeledJpg = {}

\* C27: an image that is in the pending, labeled or consumed directory is
\* in one of them only, and is still in one of them after every step.
C27_ExactlyOneArea ==
  [][\A n \in AllNames :
       /\ ~(n \in pending' /\ n \in labeledJpg')
       /\ ~(n \in pending' /\ n \in consumedJpg')
       /\ ~(n \in labeledJpg' /\ n \in consumedJpg')
       /\ (n \in pending \cup labeledJpg \cup consumedJpg) =>
            (n \in pending' \cup labeledJpg' \cup consumedJpg')]_vars

\* C28: outside the consumption loop no image is in the consumed
\* directory while its sidecar is in the labeled directory, and while the
\* trainer reads the labeled directory no label call is still to write the
\* sidecar of an image the run has taken.
C28_TravelTogether ==
  /\ rt.pc # "consume" =>
       \A n \in consumedJpg : n \notin DOMAIN labeledTxt
  /\ rt.pc = "train" =>
       \A w \in LabelWorkers :
         ~(/\ lab[w].pc \in {"open", "write"}
           /\ lab[w].file \in rt.labeled_images)

\* C29: the ids of the entries in the detection history are pairwise
\* distinct.
C29_DistinctHistoryIds ==
  \A i, j \in 1..Len(history_store) :
    i # j => history_store[i] # history_store[j]

====
